---------------------------- MODULE Spec2Model ----------------------------
(***************************************************************************)
(* A model of the planners of adlab-planning:                              *)
(*   - ParkingLot.is_not_crossed_obstacle (space/parking_lot.py)           *)
(*   - HybridAStarRoutePlanner.search_route                                *)
(*     (route_planner/hybrid_a_star_route_planner.py)                      *)
(*   - InformedTRRTStar.search_route and smooth_path                       *)
(*     (route_planner/informed_trrt_star_planner.py)                       *)
(*   - MPCController.optimize_control and follow_trajectory                *)
(*     (controller/mpc_controller.py, control/mpc_basic.py)                *)
(*                                                                         *)
(* Floats are modelled in fixed point: a coordinate is an integer number   *)
(* of 1/Scale units, a heading an integer number of degrees, and cos/sin   *)
(* are read from a table.  round() is Python's (ties go to the even        *)
(* integer).  Distances are rounded up, so that the triangle inequality,   *)
(* which math.hypot satisfies up to float rounding, holds exactly.         *)
(***************************************************************************)
EXTENDS Integers, Sequences, FiniteSets, TLC

VARIABLES
    obstacles,        \* ParkingLot.obstacles: occupied integer cells
    obstacle_lines,   \* ParkingLot.obstacle_lines: <<A, B>> segments
    goal_pose,        \* the goal_pose given to HybridAStarRoutePlanner
    start_node,       \* HybridAStarRoutePlanner.start_node
    goal_node,        \* HybridAStarRoutePlanner.goal_node
    open_set,         \* dict key -> Node, kept in insertion order
    closed_set,       \* dict key -> Node
    current_node,     \* the node popped by the last loop iteration
    expansions,       \* loop iterations of search_route that did not return
    hs_pc,            \* "idle" | "search" | "done"
    hs_result,        \* what search_route returned
    query,            \* a call of is_not_crossed_obstacle and what it returned
    sm_blocked,       \* the pairs (a, b) is_collision_free(a, b) rejects
    sm_input,         \* the path given to the first call of smooth_path
    sm_path,          \* smooth_path's argument (path_x, path_y)
    sm_i,             \* smooth_path's i, counted from 1
    sm_smooth,        \* smooth_path's (smooth_x, smooth_y)
    sm_scans,         \* scans of "for j" that ended without a break at this i
    sm_pc,            \* "idle" | "loop" | "done"
    sm_pass,          \* 1: the first call, 2: the call on its output
    sm_first,         \* what the first call returned
    tr_nodes,         \* InformedTRRTStar.nodes: the tree, in append order
    tr_goal,          \* InformedTRRTStar.goal
    tr_c_best,        \* InformedTRRTStar.c_best
    tr_max_iter,      \* InformedTRRTStar.max_iter
    tr_seed,          \* the path (rx, ry) ThetaStar.find_path returned
    tr_iter,          \* iterations of "for _ in range(self.max_iter)" begun
    tr_informed,      \* a call of sample took the "c_best < inf" branch
    tr_new,           \* index of the last iteration's new_node, 0 for none
    tr_near,          \* the last iteration's near_nodes, as indices
    tr_pc,            \* "idle" | "seed" | "loop" | "break" | "done"
    tr_result,        \* what search_route returned: <<rx, ry, rx_opt, ry_opt>>
    oc_controller,    \* "controller" (mpc_controller.py) | "basic" (mpc_basic.py)
    oc_horizon,       \* MPCController.horizon of a call of optimize_control
    oc_state,         \* optimize_control's current_state
    oc_ref,           \* optimize_control's ref_trajectory
    oc_pc,            \* "idle" | "call" | "returned"
    oc_result,        \* what optimize_control returned
    mp_controller,    \* "controller" | "basic": whose follow_trajectory runs
    mp_horizon,       \* MPCController.horizon
    mp_ref,           \* follow_trajectory's ref_trajectory
    mp_goal,          \* follow_trajectory's goal_position
    mp_state,         \* current_state
    mp_trajectory,    \* trajectory
    mp_steering,      \* steering_angles
    mp_accelations,   \* accelations
    mp_ref_index,     \* ref_index (mpc_controller.py), i (mpc_basic.py)
    mp_prev_index,    \* ref_index before the last loop iteration
    mp_segment,       \* the last ref_segment: its rows and how many of them
                      \* were cut from ref_trajectory
    mp_fallback,      \* the last optimize_control returned the default
    mp_pc,            \* "idle" | "loop" | "after" | "done"
    mp_snapped,       \* the final adjustment after the loop was made
    mp_result         \* is_reached as returned

gridVars == <<goal_pose, start_node, goal_node, open_set, closed_set,
              current_node, expansions, hs_pc, hs_result>>
mapVars == <<obstacles, obstacle_lines>>
queryVars == <<query>>
smoothVars == <<sm_blocked, sm_input, sm_path, sm_i, sm_smooth, sm_scans,
                sm_pc, sm_pass, sm_first>>
treeVars == <<tr_nodes, tr_goal, tr_c_best, tr_max_iter, tr_seed, tr_iter,
              tr_informed, tr_new, tr_near, tr_pc, tr_result>>
optVars == <<oc_controller, oc_horizon, oc_state, oc_ref, oc_pc, oc_result>>
followVars == <<mp_controller, mp_horizon, mp_ref, mp_goal, mp_state,
                mp_trajectory, mp_steering, mp_accelations, mp_ref_index,
                mp_prev_index, mp_segment, mp_fallback, mp_pc, mp_snapped,
                mp_result>>

(***************************************************************************)
(* Bounds of the model.                                                    *)
(***************************************************************************)
LotWidth == 6
LotHeight == 6
WallLength == 2
MaxPathLen == 4
MaxBlocked == 3
MaxScans == 2

(***************************************************************************)
(* Fixed-point arithmetic.                                                 *)
(***************************************************************************)
Scale == 100

Abs(n) == IF n < 0 THEN -n ELSE n

Sign(n) == IF n < 0 THEN -1 ELSE IF n > 0 THEN 1 ELSE 0

Min2(a, b) == IF a <= b THEN a ELSE b

RECURSIVE CeilSqrtIn(_, _, _)
\* the least r in lo..hi with r*r >= n (binary search)
CeilSqrtIn(n, lo, hi) ==
    IF lo >= hi THEN lo
    ELSE LET mid == (lo + hi) \div 2
         IN  IF mid * mid >= n THEN CeilSqrtIn(n, lo, mid)
             ELSE CeilSqrtIn(n, mid + 1, hi)

\* math.sqrt, rounded up to the next fixed-point value
CeilSqrt(n) == CeilSqrtIn(n, 0, 4096)

\* round(v / Scale): Python 3 rounds a tie to the even integer
Round(v) ==
    LET q == v \div Scale
        r == v % Scale
    IN  IF 2 * r < Scale THEN q
        ELSE IF 2 * r > Scale THEN q + 1
        ELSE IF q % 2 = 0 THEN q ELSE q + 1

\* round(100 * cos(d degrees)) for d = 0..90
CosTab ==
    << 100, 100, 100, 100, 100, 100, 99, 99, 99, 99,
       98, 98, 98, 97, 97, 97, 96, 96, 95, 95,
       94, 93, 93, 92, 91, 91, 90, 89, 88, 87,
       87, 86, 85, 84, 83, 82, 81, 80, 79, 78,
       77, 75, 74, 73, 72, 71, 69, 68, 67, 66,
       64, 63, 62, 60, 59, 57, 56, 54, 53, 52,
       50, 48, 47, 45, 44, 42, 41, 39, 37, 36,
       34, 33, 31, 29, 28, 26, 24, 22, 21, 19,
       17, 16, 14, 12, 10, 9, 7, 5, 3, 2, 0 >>

\* HybridAStarRoutePlanner.change_radians_range, in degrees: (-180, 180]
change_radians_range(angle) ==
    LET m == angle % 360
    IN  IF m > 180 THEN m - 360 ELSE m

\* Scale * math.cos(theta)
Cos(theta) ==
    LET a == Abs(change_radians_range(theta))
    IN  IF a <= 90 THEN CosTab[a + 1] ELSE -CosTab[180 - a + 1]

\* Scale * math.sin(theta)
Sin(theta) == Cos(theta - 90)

(***************************************************************************)
(* ParkingLot (space/parking_lot.py).                                      *)
(***************************************************************************)
lot_width == LotWidth
lot_height == LotHeight

\* create_outer_walls: the boundary cells
OuterWallCells ==
    {<<x, 0>> : x \in 0..lot_width} \cup
    {<<x, lot_height>> : x \in 0..lot_width} \cup
    {<<0, y>> : y \in 1..(lot_height - 1)} \cup
    {<<lot_width, y>> : y \in 1..(lot_height - 1)}

\* create_outer_walls: the four boundary segments
OuterWallLines ==
    { << <<0, 0>>, <<0, lot_height>> >>,
      << <<0, 0>>, <<lot_width, 0>> >>,
      << <<lot_width, 0>>, <<lot_width, lot_height>> >>,
      << <<0, lot_height>>, <<lot_width, lot_height>> >> }

\* create_horizontal_lines / create_vertical_lines: a wall from A to B
\* occupies the cells range(A, B), which leaves out the end B
WallCells(line) ==
    LET A == line[1]
        B == line[2]
    IN  IF A[2] = B[2]
        THEN {<<x, A[2]>> : x \in A[1]..(B[1] - 1)}
        ELSE {<<A[1], y>> : y \in A[2]..(B[2] - 1)}

\* the inner walls a lot of this size can have: one horizontal or one
\* vertical segment of WallLength cells between interior cells, or none
InnerWalls ==
    {<<>>} \cup
    { << <<x, y>>, <<x + WallLength, y>> >> :
        x \in 1..(lot_width - 1 - WallLength), y \in 1..(lot_height - 1) } \cup
    { << <<x, y>>, <<x, y + WallLength>> >> :
        x \in 1..(lot_width - 1), y \in 1..(lot_height - 1 - WallLength) }

\* ParkingLot.__init__
ParkingLotInit(wall) ==
    /\ obstacles = OuterWallCells \cup
                   (IF wall = <<>> THEN {} ELSE WallCells(wall))
    /\ obstacle_lines = OuterWallLines \cup
                        (IF wall = <<>> THEN {} ELSE {wall})

get_grid_index(x, y) == x + y * lot_width

ccw(A, B, C) ==
    (C[2] - A[2]) * (B[1] - A[1]) > (B[2] - A[2]) * (C[1] - A[1])

intersect(line1, line2) ==
    LET A == line1[1]
        B == line1[2]
        C == line2[1]
        D == line2[2]
    IN  /\ ccw(A, C, D) # ccw(B, C, D)
        /\ ccw(A, B, C) # ccw(A, B, D)

is_not_crossed_obstacle(previous_node, current) ==
    LET is_cross_line ==
            \E obstacle_line \in obstacle_lines :
                intersect(obstacle_line, <<previous_node, current>>)
    IN  /\ current \notin obstacles
        /\ 0 < current[1] /\ current[1] < lot_width
        /\ 0 < current[2] /\ current[2] < lot_height
        /\ ~is_cross_line

(***************************************************************************)
(* HybridAStarRoutePlanner (route_planner/hybrid_a_star_route_planner.py). *)
(***************************************************************************)
\* Node.__init__
Node(x, y, theta, cost, steering, parent_node_index) ==
    [x |-> x, y |-> y, theta |-> theta,
     discrete_x |-> Round(x), discrete_y |-> Round(y),
     cost |-> cost, steering |-> steering,
     parent_node_index |-> parent_node_index]

steering_degree_inputs == <<-40, -20, -10, 0, 10, 20, 40>>

chord_lengths == <<2, 1>>

\* [calculate_next_node(...) for steering in steering_inputs
\*                           for velocity in chord_lengths]
Primitives ==
    [i \in 1..(Len(steering_degree_inputs) * Len(chord_lengths)) |->
        [steering |-> steering_degree_inputs[((i - 1) \div Len(chord_lengths)) + 1],
         chord |-> chord_lengths[((i - 1) % Len(chord_lengths)) + 1]]]

\* chord_length * tan(steering) / wheelbase (wheelbase 2.7), in degrees,
\* per unit of chord length: 17.8, 7.7 and 3.7 degrees
TurnPerChord(steering) ==
    LET a == Abs(steering)
    IN  Sign(steering) *
        (IF a = 40 THEN 1781 ELSE IF a = 20 THEN 772
         ELSE IF a = 10 THEN 374 ELSE 0)

\* the heading change, rounded to a whole degree
Turn(chord_length, steering) ==
    LET t == chord_length * TurnPerChord(steering)
    IN  Sign(t) * ((Abs(t) + 50) \div 100)

\* calculate_next_node with "current.cost" in place of
\* "current.cost + chord_length"
calculate_next_node_same_cost(current, current_node_index, chord_length, steering) ==
    LET theta == change_radians_range(
                     current.theta + Turn(chord_length, steering))
        x == current.x + chord_length * Cos(theta)
        y == current.y + chord_length * Sin(theta)
    IN  Node(x, y, theta, current.cost, steering, current_node_index)

calculate_next_node(current, current_node_index, chord_length, steering) ==
    LET theta == change_radians_range(
                     current.theta + Turn(chord_length, steering))
        x == current.x + chord_length * Cos(theta)
        y == current.y + chord_length * Sin(theta)
    IN  Node(x, y, theta, current.cost + chord_length, steering,
             current_node_index)

\* calculate_distance_to_end, with self.goal_node as goal
calculate_distance_to_end(node, goal) ==
    CeilSqrt((node.x - goal.x) * (node.x - goal.x)
             + (node.y - goal.y) * (node.y - goal.y))

\* abs(math.radians(steering)) * 10
SteeringCost(steering) == (Abs(steering) * 1745) \div 100

\* calculate_heuristic_cost, with self.goal_node as goal
calculate_heuristic_cost(node, goal) ==
    LET distance_cost == calculate_distance_to_end(node, goal)
        angle_cost ==
            (Abs(change_radians_range(node.theta - goal.theta)) * 1745)
                \div 10000
        steering_cost == SteeringCost(node.steering)
    IN  distance_cost + angle_cost + steering_cost

\* key in open_set
InOpen(open, k) == \E i \in 1..Len(open) : open[i].key = k

OpenKeys(open) == {open[i].key : i \in 1..Len(open)}

OpenIndex(open, k) == CHOOSE i \in 1..Len(open) : open[i].key = k

\* open_set[k] = node: a new key goes last, an old key keeps its place
OpenPut(open, k, node) ==
    IF InOpen(open, k)
    THEN [open EXCEPT ![OpenIndex(open, k)] = [key |-> k, node |-> node]]
    ELSE Append(open, [key |-> k, node |-> node])

\* del open_set[k]
OpenDel(open, k) ==
    LET i == OpenIndex(open, k)
    IN  SubSeq(open, 1, i - 1) \o SubSeq(open, i + 1, Len(open))

\* open_set[o].cost + self.calculate_heuristic_cost(open_set[o])
Priority(node, goal) ==
    node.cost * Scale + calculate_heuristic_cost(node, goal)

\* if self.calculate_distance_to_end(current_node.pose) <= 1
GoalReachedWrong(node, goal) ==
    calculate_distance_to_end(node, goal) <= 2 * Scale

GoalReached(node, goal) == calculate_distance_to_end(node, goal) <= 1 * Scale

RECURSIVE MinFrom(_, _, _, _, _)
\* the scan of min(): best is the index of the least value among the
\* first i - 1 entries, and a later entry wins only when strictly less
MinFrom(open, goal, i, best, bestValue) ==
    IF i > Len(open) THEN best
    ELSE LET v == Priority(open[i].node, goal)
         IN  IF v < bestValue THEN MinFrom(open, goal, i + 1, i, v)
             ELSE MinFrom(open, goal, i + 1, best, bestValue)

\* min(open_set, key=...): the first key, in insertion order, of least value
MinOpenIndex(open, goal) ==
    MinFrom(open, goal, 2, 1, Priority(open[1].node, goal))

\* Relax without "if next_node_index in closed_set: continue"
RelaxNoClosedCheck(open, closed, current, current_node_index, prim) ==
    LET next_node == calculate_next_node(current, current_node_index,
                                         prim.chord, prim.steering)
        next_node_index == get_grid_index(next_node.discrete_x,
                                          next_node.discrete_y)
    IN  IF is_not_crossed_obstacle(
               <<current.discrete_x, current.discrete_y>>,
               <<next_node.discrete_x, next_node.discrete_y>>)
        THEN IF ~InOpen(open, next_node_index)
             THEN OpenPut(open, next_node_index, next_node)
             ELSE IF open[OpenIndex(open, next_node_index)].node.cost
                         > next_node.cost
                  THEN OpenPut(open, next_node_index, next_node)
                  ELSE open
        ELSE open

\* Relax that re-opens a closed cell reached at a lower cost
RelaxReopenCheaper(open, closed, current, current_node_index, prim) ==
    LET next_node == calculate_next_node(current, current_node_index,
                                         prim.chord, prim.steering)
        next_node_index == get_grid_index(next_node.discrete_x,
                                          next_node.discrete_y)
    IN  IF is_not_crossed_obstacle(
               <<current.discrete_x, current.discrete_y>>,
               <<next_node.discrete_x, next_node.discrete_y>>)
        THEN IF /\ next_node_index \in DOMAIN closed
                /\ closed[next_node_index].cost <= next_node.cost
             THEN open
             ELSE IF ~InOpen(open, next_node_index)
                  THEN OpenPut(open, next_node_index, next_node)
                  ELSE IF open[OpenIndex(open, next_node_index)].node.cost
                              > next_node.cost
                       THEN OpenPut(open, next_node_index, next_node)
                       ELSE open
        ELSE open

\* the body of "for next_node in next_nodes" for one node
Relax(open, closed, current, current_node_index, prim) ==
    LET next_node == calculate_next_node(current, current_node_index,
                                         prim.chord, prim.steering)
        next_node_index == get_grid_index(next_node.discrete_x,
                                          next_node.discrete_y)
    IN  IF is_not_crossed_obstacle(
               <<current.discrete_x, current.discrete_y>>,
               <<next_node.discrete_x, next_node.discrete_y>>)
        THEN IF next_node_index \in DOMAIN closed THEN open
             ELSE IF ~InOpen(open, next_node_index)
                  THEN OpenPut(open, next_node_index, next_node)
                  ELSE IF open[OpenIndex(open, next_node_index)].node.cost
                              > next_node.cost
                       THEN OpenPut(open, next_node_index, next_node)
                       ELSE open
        ELSE open

RECURSIVE RelaxAll(_, _, _, _, _)
\* "for next_node in next_nodes", from the i-th node on
RelaxAll(open, closed, current, current_node_index, i) ==
    IF i > Len(Primitives) THEN open
    ELSE RelaxAll(Relax(open, closed, current, current_node_index,
                        Primitives[i]),
                  closed, current, current_node_index, i + 1)

RECURSIVE RouteFrom(_, _, _)
\* process_route's loop: the poses from the node of key parent_node back
\* to the start, at most fuel of them
RouteFrom(closed, parent_node, fuel) ==
    IF parent_node = -1 \/ fuel = 0 THEN <<>>
    ELSE LET n == closed[parent_node]
         IN  Append(RouteFrom(closed, n.parent_node_index, fuel - 1),
                    <<n.x, n.y>>)

\* process_route: rx, ry from the start to the goal node
process_route(closed, goal) ==
    Append(RouteFrom(closed, goal.parent_node_index,
                     Cardinality(DOMAIN closed)),
           <<goal.x, goal.y>>)

NoNode == [x |-> 0, y |-> 0, theta |-> 0, discrete_x |-> 0, discrete_y |-> 0,
           cost |-> 0, steering |-> 0, parent_node_index |-> -1]

NoResult == [found |-> FALSE, total_distance |-> 0, route |-> <<>>]

\* no search is running
GridIdle ==
    /\ goal_pose = [x |-> 0, y |-> 0, theta |-> 0]
    /\ start_node = NoNode
    /\ goal_node = NoNode
    /\ open_set = <<>>
    /\ closed_set = <<>>
    /\ current_node = NoNode
    /\ expansions = 0
    /\ hs_pc = "idle"
    /\ hs_result = NoResult

\* the start and goal poses the search is run on
\* (x, y, theta): on the left wall heading up, and two poses inside the
\* lot heading right, with coordinates that round() has to break a tie on
StartPoses == {<<0, 100, 90>>, <<150, 150, 0>>, <<250, 150, 0>>}

\* the goals: the corner cells of the interior
GoalCells == {1, lot_width - 1} \X {1, lot_height - 1}

\* HybridAStarRoutePlanner.__init__ and the first line of search_route
GridInit ==
    /\ \E wall \in InnerWalls : ParkingLotInit(wall)
    /\ \E s \in StartPoses :
           start_node = Node(s[1], s[2], s[3], 0, 0, -1)
    /\ \E g \in GoalCells :
           goal_pose = [x |-> Scale * g[1], y |-> Scale * g[2], theta |-> 0]
    /\ goal_node = Node(goal_pose.x, goal_pose.y, goal_pose.theta, 0, 0, -1)
    /\ open_set = << [key |-> get_grid_index(start_node.discrete_x,
                                             start_node.discrete_y),
                      node |-> start_node] >>
    /\ closed_set = <<>>
    /\ current_node = NoNode
    /\ expansions = 0
    /\ hs_pc = "search"
    /\ hs_result = NoResult

\* what a step of the search leaves alone
GridFrame == UNCHANGED <<queryVars, smoothVars, treeVars, optVars, followVars>>

\* one iteration of "while open_set" that finds the goal and returns
SearchSuccess ==
    /\ hs_pc = "search"
    /\ open_set # <<>>
    /\ LET current == open_set[MinOpenIndex(open_set, goal_node)].node
       IN  /\ GoalReached(current, goal_node)
           /\ current_node' = current
           /\ goal_node' = current
           /\ hs_result' = [found |-> TRUE,
                            total_distance |-> current.cost,
                            route |-> process_route(closed_set, current)]
    /\ hs_pc' = "done"
    /\ UNCHANGED <<goal_pose, start_node, open_set, closed_set, expansions,
                   mapVars>>
    /\ GridFrame

\* one iteration of "while open_set" that expands the popped node
SearchExpand ==
    /\ hs_pc = "search"
    /\ open_set # <<>>
    /\ LET min_index == MinOpenIndex(open_set, goal_node)
           current_node_index == open_set[min_index].key
           current == open_set[min_index].node
           closed == [k \in DOMAIN closed_set \cup {current_node_index} |->
                         IF k = current_node_index THEN current
                         ELSE closed_set[k]]
       IN  /\ ~GoalReached(current, goal_node)
           /\ current_node' = current
           /\ closed_set' = closed
           /\ open_set' = RelaxAll(OpenDel(open_set, current_node_index),
                                   closed, current, current_node_index, 1)
    /\ expansions' = expansions + 1
    /\ UNCHANGED <<goal_pose, start_node, goal_node, hs_pc, hs_result,
                   mapVars>>
    /\ GridFrame

\* "while open_set" ends: print("Cannot find Route"); return False, 0, []
SearchFail ==
    /\ hs_pc = "search"
    /\ open_set = <<>>
    /\ hs_result' = [found |-> FALSE, total_distance |-> 0, route |-> <<>>]
    /\ hs_pc' = "done"
    /\ UNCHANGED <<goal_pose, start_node, goal_node, open_set, closed_set,
                   current_node, expansions, mapVars>>
    /\ GridFrame

GridNext == SearchSuccess \/ SearchExpand \/ SearchFail

(***************************************************************************)
(* Calls of ParkingLot.is_not_crossed_obstacle on a constructed lot.       *)
(***************************************************************************)
NoQuery == [previous_node |-> <<0, 0>>, current_node |-> <<0, 0>>,
            returned |-> FALSE, calls |-> 0]

QueryIdle == query = NoQuery

\* the integer cells a query is made on: the lot with its boundary
QueryCells == (0..lot_width) \X (0..lot_height)

MapInit ==
    /\ \E wall \in InnerWalls : ParkingLotInit(wall)
    /\ QueryIdle

\* a call of is_not_crossed_obstacle(previous_node, current_node)
MapQuery ==
    /\ query.calls = 0
    /\ \E previous_node \in QueryCells, current \in QueryCells :
           query' = [previous_node |-> previous_node,
                     current_node |-> current,
                     returned |-> is_not_crossed_obstacle(previous_node,
                                                          current),
                     calls |-> 1]
    /\ UNCHANGED <<mapVars, gridVars, smoothVars, treeVars, optVars,
                   followVars>>

MapNext == MapQuery

(***************************************************************************)
(* InformedTRRTStar.smooth_path                                            *)
(* (route_planner/informed_trrt_star_planner.py).  A path is a sequence    *)
(* of points; is_collision_free is any fixed relation on points, given by  *)
(* the set of pairs it rejects.  Indices count from 1.                     *)
(***************************************************************************)
RECURSIVE ScanBack(_, _, _, _)
\* for j in range(len(path_x) - 1, i, -1): the first j, from j down,
\* with is_collision_free(path[i], path[j]); 0 when the loop ends
\* without a break
ScanBack(path, blocked, i, j) ==
    IF j <= i THEN 0
    ELSE IF <<path[i], path[j]>> \notin blocked THEN j
         ELSE ScanBack(path, blocked, i, j - 1)

\* smooth_x.append(path_x[j]) with the index one too low
PickedOffByOne(path, j) == path[j - 1]

\* smooth_x.append(path_x[j]); smooth_y.append(path_y[j])
Picked(path, j) == path[j]

\* the points a path is made of
SmoothPoints == {<<1, 1>>, <<2, 1>>, <<2, 2>>}

\* the non-empty paths of at most n points
PathsUpTo(n) == UNION {[1..k -> SmoothPoints] : k \in 1..n}

SmoothIdle ==
    /\ sm_blocked = {}
    /\ sm_input = <<>>
    /\ sm_path = <<>>
    /\ sm_i = 0
    /\ sm_smooth = <<>>
    /\ sm_scans = 0
    /\ sm_pc = "idle"
    /\ sm_pass = 0
    /\ sm_first = <<>>

\* smooth_path(path_x, path_y) is called: smooth = [path[0]], i = 0
SmoothInit ==
    /\ sm_blocked \in {b \in SUBSET (SmoothPoints \X SmoothPoints) :
                          Cardinality(b) <= MaxBlocked}
    /\ sm_input \in PathsUpTo(MaxPathLen)
    /\ sm_path = sm_input
    /\ sm_i = 1
    /\ sm_smooth = <<sm_path[1]>>
    /\ sm_scans = 0
    /\ sm_pc = "loop"
    /\ sm_pass = 1
    /\ sm_first = <<>>

SmoothFrame ==
    UNCHANGED <<mapVars, gridVars, queryVars, treeVars, optVars, followVars>>

\* an iteration of "while i < len(path_x) - 1" whose scan breaks at j
SmoothAdvance ==
    /\ sm_pc = "loop"
    /\ sm_i < Len(sm_path)
    /\ LET j == ScanBack(sm_path, sm_blocked, sm_i, Len(sm_path))
       IN  /\ j # 0
           /\ sm_smooth' = Append(sm_smooth, Picked(sm_path, j))
           /\ sm_i' = j
    /\ sm_scans' = 0
    /\ UNCHANGED <<sm_blocked, sm_input, sm_path, sm_pc, sm_pass, sm_first>>
    /\ SmoothFrame

\* an iteration whose scan finds no j: i is unchanged and the while
\* condition still holds
SmoothSpin ==
    /\ sm_pc = "loop"
    /\ sm_i < Len(sm_path)
    /\ ScanBack(sm_path, sm_blocked, sm_i, Len(sm_path)) = 0
    /\ sm_scans' = Min2(sm_scans + 1, MaxScans)
    /\ UNCHANGED <<sm_blocked, sm_input, sm_path, sm_i, sm_smooth, sm_pc,
                   sm_pass, sm_first>>
    /\ SmoothFrame

\* the while condition fails: return smooth_x, smooth_y
SmoothReturn ==
    /\ sm_pc = "loop"
    /\ ~(sm_i < Len(sm_path))
    /\ sm_pc' = "done"
    /\ sm_first' = IF sm_pass = 1 THEN sm_smooth ELSE sm_first
    /\ UNCHANGED <<sm_blocked, sm_input, sm_path, sm_i, sm_smooth, sm_scans,
                   sm_pass>>
    /\ SmoothFrame

\* smooth_path is called on what it returned
SmoothAgain ==
    /\ sm_pc = "done"
    /\ sm_pass = 1
    /\ sm_path' = sm_first
    /\ sm_i' = 1
    /\ sm_smooth' = <<sm_first[1]>>
    /\ sm_scans' = 0
    /\ sm_pc' = "loop"
    /\ sm_pass' = 2
    /\ UNCHANGED <<sm_blocked, sm_input, sm_first>>
    /\ SmoothFrame

SmoothNext == SmoothAdvance \/ SmoothSpin \/ SmoothReturn \/ SmoothAgain

(***************************************************************************)
(* InformedTRRTStar.search_route                                           *)
(* (route_planner/informed_trrt_star_planner.py).  A tree node is a record *)
(* of its position, its cost and the index of its parent in self.nodes     *)
(* (0 for None).  steer, is_collision_free, get_nearest_node_index, rewire *)
(* and generate_final_course are inherited from InformedRRTStar and the    *)
(* seed path comes from ThetaStar; both are outside this repository's      *)
(* sources and are modelled from the specification.                       *)
(***************************************************************************)
\* float("inf")
Inf == 99999999

\* the search_radius the planner is constructed with
search_radius == 3

\* geometry.Node(x, y, cost), with parent
TreeNode(x, y, cost, parent) ==
    [x |-> x, y |-> y, cost |-> cost, parent |-> parent]

NoTreeNode == TreeNode(0, 0, 0, 0)

\* math.hypot
hypot(dx, dy) == CeilSqrt(dx * dx + dy * dy)

\* n / d, cut to a fixed-point value
Trunc(n, d) == Sign(n) * (Abs(n) \div d)

\* steer(from_node, to_node, extend_length): the node at most
\* extend_length from from_node on the way to to_node, with from_node as
\* its parent and its cost the cost of from_node plus the length steered
steer(from_node, from_index, to_node, extend_length) ==
    LET d == hypot(to_node.x - from_node.x, to_node.y - from_node.y)
        length == Min2(extend_length, d)
    IN  IF d = 0
        THEN TreeNode(from_node.x, from_node.y, from_node.cost, from_index)
        ELSE TreeNode(
                 from_node.x + Trunc((to_node.x - from_node.x) * length, d),
                 from_node.y + Trunc((to_node.y - from_node.y) * length, d),
                 from_node.cost + length, from_index)

\* is_collision_free(from_node, to_node): the map's obstacle query on the
\* segment between the two positions
is_collision_free(from_node, to_node) ==
    LET is_cross_line ==
            \E line \in obstacle_lines :
                intersect(<< <<Scale * line[1][1], Scale * line[1][2]>>,
                             <<Scale * line[2][1], Scale * line[2][2]>> >>,
                          << <<from_node.x, from_node.y>>,
                             <<to_node.x, to_node.y>> >>)
    IN  /\ ~\E c \in obstacles :
               to_node.x = Scale * c[1] /\ to_node.y = Scale * c[2]
        /\ 0 < to_node.x /\ to_node.x < Scale * lot_width
        /\ 0 < to_node.y /\ to_node.y < Scale * lot_height
        /\ ~is_cross_line

RECURSIVE NearestFrom(_, _, _, _, _)
\* the scan of dlist.index(min(dlist)): the first index of least distance
NearestFrom(nodes, rnd, i, best, bestValue) ==
    IF i > Len(nodes) THEN best
    ELSE LET v == (nodes[i].x - rnd.x) * (nodes[i].x - rnd.x)
                  + (nodes[i].y - rnd.y) * (nodes[i].y - rnd.y)
         IN  IF v < bestValue THEN NearestFrom(nodes, rnd, i + 1, i, v)
             ELSE NearestFrom(nodes, rnd, i + 1, best, bestValue)

get_nearest_node_index(nodes, rnd) ==
    NearestFrom(nodes, rnd, 2, 1,
                (nodes[1].x - rnd.x) * (nodes[1].x - rnd.x)
                + (nodes[1].y - rnd.y) * (nodes[1].y - rnd.y))

\* np.linalg.norm(start - goal)
c_min == hypot(tr_nodes[1].x - tr_goal.x, tr_nodes[1].y - tr_goal.y)

\* self.search_radius * (self.c_best / self.c_min)
adaptive_radius(c_best) ==
    IF c_best = Inf THEN Inf
    ELSE (search_radius * Scale * c_best) \div c_min

\* near_nodes, as indices into nodes; every distance is <= inf
near_nodes(nodes, new_node, c_best) ==
    LET radius == adaptive_radius(c_best)
    IN  {i \in 1..Len(nodes) :
            \/ radius = Inf
            \/ hypot(nodes[i].x - new_node.x, nodes[i].y - new_node.y)
                   <= radius}

\* InformedTRRTStar.heuristic
heuristic(node, goal) == hypot(goal.x - node.x, goal.y - node.y)

RECURSIVE BestParentFrom(_, _, _, _, _, _, _)
\* the loop of search_best_parent from the i-th node on; twice the
\* heuristic_cost is compared, the factor 1.5 being 3/2
BestParentFrom(nodes, near, new_node, goal, i, best_parent, min_cost) ==
    IF i > Len(nodes) THEN best_parent
    ELSE IF i \in near /\ is_collision_free(nodes[i], new_node)
         THEN LET heuristic_cost ==
                      2 * (nodes[i].cost
                           + hypot(new_node.x - nodes[i].x,
                                   new_node.y - nodes[i].y))
                      + 3 * heuristic(new_node, goal)
              IN  IF heuristic_cost < min_cost
                  THEN BestParentFrom(nodes, near, new_node, goal, i + 1,
                                      i, heuristic_cost)
                  ELSE BestParentFrom(nodes, near, new_node, goal, i + 1,
                                      best_parent, min_cost)
         ELSE BestParentFrom(nodes, near, new_node, goal, i + 1,
                             best_parent, min_cost)

\* search_best_parent: the index of the best parent, 0 for None
search_best_parent(nodes, near, new_node, goal) ==
    BestParentFrom(nodes, near, new_node, goal, 1, 0, Inf)

\* rewire(new_node, near_nodes): a near node that is strictly cheaper
\* through new_node, over a collision-free segment, gets new_node as its
\* parent and that cost
rewire(nodes, new_index, near) ==
    LET new_node == nodes[new_index]
    IN  [i \in 1..Len(nodes) |->
            LET cost == new_node.cost
                        + hypot(nodes[i].x - new_node.x,
                                nodes[i].y - new_node.y)
            IN  IF /\ i \in near
                   /\ cost < nodes[i].cost
                   /\ is_collision_free(new_node, nodes[i])
                THEN TreeNode(nodes[i].x, nodes[i].y, cost, new_index)
                ELSE nodes[i]]

\* narrow_sample: one (x1, y1, x2, y2, margin) per pair of consecutive
\* points of the seed path; margin2 is twice the margin search_radius / 2
narrow_sample(path) ==
    [i \in 1..(Len(path) - 1) |->
        [x1 |-> path[i][1], y1 |-> path[i][2],
         x2 |-> path[i + 1][1], y2 |-> path[i + 1][2],
         margin2 |-> search_radius]]

RECURSIVE WithinRegionFrom(_, _, _)
\* the loop of is_within_region from the i-th segment on.  d <= margin is
\* compared as 4 * cross^2 <= margin2^2 * hypot^2; a segment of length 0
\* makes the division raise ZeroDivisionError
WithinRegionFrom(p, path_region, i) ==
    IF i > Len(path_region) THEN "False"
    ELSE LET r == path_region[i]
             cross == (r.y2 - r.y1) * p[1] - (r.x2 - r.x1) * p[2]
                      + r.x2 * r.y1 - r.y2 * r.x1
             hypot2 == (r.y2 - r.y1) * (r.y2 - r.y1)
                       + (r.x2 - r.x1) * (r.x2 - r.x1)
         IN  IF hypot2 = 0 THEN "ZeroDivisionError"
             ELSE IF 4 * cross * cross <= r.margin2 * r.margin2 * hypot2
                  THEN "True"
                  ELSE WithinRegionFrom(p, path_region, i + 1)

is_within_region(p, path_region) == WithinRegionFrom(p, path_region, 1)

\* the points random.uniform(0, lot_width), random.uniform(0, lot_height)
\* is taken from: those with whole coordinates
RandomPoints == (0..lot_width) \X (0..lot_height)

\* is_within_map_instance
is_within_map_instance(p) ==
    /\ 0 <= p[1] /\ p[1] <= lot_width
    /\ 0 <= p[2] /\ p[2] <= lot_height

\* the image of the unit ball in sample: the ellipse with foci start and
\* goal whose major axis is c_best
InEllipse(p, c_best) ==
    hypot(Scale * p[1] - tr_nodes[1].x, Scale * p[2] - tr_nodes[1].y)
    + hypot(Scale * p[1] - tr_goal.x, Scale * p[2] - tr_goal.y) <= c_best

\* the points of the branch of sample that c_best selects
SampleCandidates(c_best) ==
    IF c_best < Inf
    THEN {p \in RandomPoints : is_within_map_instance(p) /\ InEllipse(p, c_best)}
    ELSE RandomPoints

RECURSIVE CourseFrom(_, _, _)
\* generate_final_course: the positions from the start to the node of
\* index i, along the parents, at most fuel of them
CourseFrom(nodes, i, fuel) ==
    IF i = 0 \/ fuel = 0 THEN <<>>
    ELSE Append(CourseFrom(nodes, nodes[i].parent, fuel - 1),
                <<nodes[i].x, nodes[i].y>>)

generate_final_course(nodes, goal) ==
    Append(CourseFrom(nodes, goal.parent, Len(nodes)), <<goal.x, goal.y>>)

\* the pairs of points of a path that is_collision_free rejects
BlockedPairs(path) ==
    LET points == {path[i] : i \in 1..Len(path)}
    IN  {pq \in points \X points :
            ~is_collision_free(TreeNode(pq[1][1], pq[1][2], 0, 0),
                               TreeNode(pq[2][1], pq[2][2], 0, 0))}

RECURSIVE SmoothFrom(_, _, _, _)
\* the while loop of smooth_path from index i on; <<>> when a scan ends
\* without a break, in which case the call does not return
SmoothFrom(path, blocked, i, smooth) ==
    IF ~(i < Len(path)) THEN smooth
    ELSE LET j == ScanBack(path, blocked, i, Len(path))
         IN  IF j = 0 THEN <<>>
             ELSE SmoothFrom(path, blocked, j, Append(smooth, Picked(path, j)))

smooth_path(path) == SmoothFrom(path, BlockedPairs(path), 1, <<path[1]>>)

\* a path of whole coordinates, in fixed point
FixedPoint(path) ==
    [i \in 1..Len(path) |-> <<Scale * path[i][1], Scale * path[i][2]>>]

Xs(path) == [i \in 1..Len(path) |-> path[i][1]]

Ys(path) == [i \in 1..Len(path) |-> path[i][2]]

\* return [], [], [], [] when the goal has been given no parent
FailureResultKeepsSeed(seed) ==
    <<Xs(FixedPoint(seed)), Ys(FixedPoint(seed)), <<>>, <<>>>>

\* return [], [], [], []
FailureResult(seed) == << <<>>, <<>>, <<>>, <<>> >>

\* the statement after print("Goal Reached") left out
LoopContinues == "loop"

\* break
LoopExit == "break"

\* self.goal = final_node with the goal as its own parent
connect_goal_to_itself(final_node, new_index) ==
    TreeNode(final_node.x, final_node.y, final_node.cost, new_index + 1)

\* self.goal = final_node; self.goal.parent = new_node
connect_goal(final_node, new_index) ==
    TreeNode(final_node.x, final_node.y, final_node.cost, new_index)

\* one iteration of "for _ in range(self.max_iter)" on the sample rnd:
\* what it does to nodes, goal and c_best
Iteration(rnd) ==
    LET rand_node == TreeNode(Scale * rnd[1], Scale * rnd[2], 0, 0)
        nearest_index == get_nearest_node_index(tr_nodes, rand_node)
        nearest_node == tr_nodes[nearest_index]
        steered == steer(nearest_node, nearest_index, rand_node,
                         search_radius * Scale)
        near == near_nodes(tr_nodes, steered, tr_c_best)
        best_parent == search_best_parent(tr_nodes, near, steered, tr_goal)
        new_node == IF best_parent # 0
                    THEN steer(tr_nodes[best_parent], best_parent, steered, Inf)
                    ELSE steered
        new_index == Len(tr_nodes) + 1
        rewired == rewire(Append(tr_nodes, new_node), new_index, near)
        final_node == steer(new_node, new_index, tr_goal, Inf)
        goal == connect_goal(final_node, new_index)
    IN  IF ~is_collision_free(nearest_node, steered)
        THEN [kind |-> "continue", nodes |-> tr_nodes, goal |-> tr_goal,
              c_best |-> tr_c_best, new_index |-> 0, near |-> {}]
        ELSE IF /\ hypot(new_node.x - tr_goal.x, new_node.y - tr_goal.y)
                       <= search_radius * Scale
                /\ is_collision_free(new_node, final_node)
             THEN [kind |-> "connect", nodes |-> Append(rewired, goal),
                   goal |-> goal, c_best |-> goal.cost,
                   new_index |-> new_index, near |-> near]
             ELSE [kind |-> "grow", nodes |-> rewired, goal |-> tr_goal,
                   c_best |-> tr_c_best,
                   new_index |-> new_index, near |-> near]

\* no tree planner has been constructed
TreeIdle ==
    /\ tr_nodes = <<>>
    /\ tr_goal = NoTreeNode
    /\ tr_c_best = 0
    /\ tr_max_iter = 0
    /\ tr_seed = <<>>
    /\ tr_iter = 0
    /\ tr_informed = FALSE
    /\ tr_new = 0
    /\ tr_near = {}
    /\ tr_pc = "idle"
    /\ tr_result = <<>>

\* the (inner wall, start, goal) the tree planner is constructed with: a
\* goal near the start behind which a wall lies, and a goal straight
\* above the start in a lot with and without that wall
TreeCases ==
    { << << <<2, 2>>, <<4, 2>> >>, <<2, 3>>, <<1, 4>> >>,
      << << <<2, 2>>, <<4, 2>> >>, <<1, 1>>, <<1, 5>> >>,
      << <<>>, <<1, 1>>, <<1, 5>> >> }

\* what ThetaStar.find_path can return when it finds a path: the straight
\* polyline from start to goal, or one that repeats its first point
SeedPaths(start, goal) ==
    { <<start, goal>>, <<start, start, goal>> }

\* the values of max_iter the tree planner is constructed with
MaxIters == {0, 1, 4}

\* InformedTRRTStar.__init__
TreeInit ==
    /\ \E c \in TreeCases :
           /\ ParkingLotInit(c[1])
           /\ tr_nodes = << TreeNode(Scale * c[2][1], Scale * c[2][2], 0, 0) >>
           /\ tr_goal = TreeNode(Scale * c[3][1], Scale * c[3][2], 0, 0)
    /\ tr_c_best = Inf
    /\ tr_max_iter \in MaxIters
    /\ tr_seed = <<>>
    /\ tr_iter = 0
    /\ tr_informed = FALSE
    /\ tr_new = 0
    /\ tr_near = {}
    /\ tr_pc = "seed"
    /\ tr_result = <<>>

TreeFrame ==
    UNCHANGED <<mapVars, gridVars, queryVars, smoothVars, optVars, followVars>>

\* find_path returns no path: return [], [], [], []
TreeSeedFail ==
    /\ tr_pc = "seed"
    /\ tr_seed' = <<>>
    /\ tr_result' = FailureResult(<<>>)
    /\ tr_pc' = "done"
    /\ UNCHANGED <<tr_nodes, tr_goal, tr_c_best, tr_max_iter, tr_iter,
                   tr_informed, tr_new, tr_near>>
    /\ TreeFrame

\* find_path returns a path; path_region = self.narrow_sample(rx, ry)
TreeSeedFound ==
    /\ tr_pc = "seed"
    /\ \E path \in SeedPaths(<<tr_nodes[1].x \div Scale, tr_nodes[1].y \div Scale>>,
                             <<tr_goal.x \div Scale, tr_goal.y \div Scale>>) :
           tr_seed' = path
    /\ tr_pc' = "loop"
    /\ UNCHANGED <<tr_nodes, tr_goal, tr_c_best, tr_max_iter, tr_iter,
                   tr_informed, tr_new, tr_near, tr_result>>
    /\ TreeFrame

\* the loop has an iteration left
TreeLoopRuns == tr_pc = "loop" /\ tr_iter < tr_max_iter

\* the loop has ended: by break, or because range(self.max_iter) is used up
TreeLoopOver == tr_pc = "break" \/ (tr_pc = "loop" /\ tr_iter >= tr_max_iter)

\* an iteration whose sample raises in is_within_region
TreeSampleRaise ==
    /\ TreeLoopRuns
    /\ \E rnd \in SampleCandidates(tr_c_best) :
           is_within_region(rnd, narrow_sample(tr_seed)) = "ZeroDivisionError"
    /\ tr_iter' = tr_iter + 1
    /\ tr_informed' = (tr_informed \/ tr_c_best < Inf)
    /\ tr_pc' = "raised"
    /\ UNCHANGED <<tr_nodes, tr_goal, tr_c_best, tr_max_iter, tr_seed,
                   tr_new, tr_near, tr_result>>
    /\ TreeFrame

\* an iteration of the loop on a sample inside the path region: it ends
\* at "continue", or appends new_node and rewires, or does that and
\* connects the goal and leaves the loop
TreeIterate ==
    /\ TreeLoopRuns
    /\ \E rnd \in SampleCandidates(tr_c_best) :
           /\ is_within_region(rnd, narrow_sample(tr_seed)) = "True"
           /\ LET iteration == Iteration(rnd)
              IN  /\ tr_nodes' = iteration.nodes
                  /\ tr_goal' = iteration.goal
                  /\ tr_c_best' = iteration.c_best
                  /\ tr_new' = iteration.new_index
                  /\ tr_near' = iteration.near
                  /\ tr_pc' = IF iteration.kind = "connect" THEN LoopExit
                              ELSE "loop"
    /\ tr_iter' = tr_iter + 1
    /\ tr_informed' = (tr_informed \/ tr_c_best < Inf)
    /\ UNCHANGED <<tr_max_iter, tr_seed, tr_result>>
    /\ TreeFrame

\* if self.goal.parent is None: return [], [], [], []
TreeReturnFail ==
    /\ TreeLoopOver
    /\ tr_goal.parent = 0
    /\ tr_result' = FailureResult(tr_seed)
    /\ tr_pc' = "done"
    /\ UNCHANGED <<tr_nodes, tr_goal, tr_c_best, tr_max_iter, tr_seed,
                   tr_iter, tr_informed, tr_new, tr_near>>
    /\ TreeFrame

\* return rx, ry, rx_opt, ry_opt, once smooth_path has returned
TreeReturnPath ==
    /\ TreeLoopOver
    /\ tr_goal.parent # 0
    /\ LET smooth == smooth_path(generate_final_course(tr_nodes, tr_goal))
       IN  /\ smooth # <<>>
           /\ tr_result' = <<Xs(FixedPoint(tr_seed)), Ys(FixedPoint(tr_seed)),
                             Xs(smooth), Ys(smooth)>>
    /\ tr_pc' = "done"
    /\ UNCHANGED <<tr_nodes, tr_goal, tr_c_best, tr_max_iter, tr_seed,
                   tr_iter, tr_informed, tr_new, tr_near>>
    /\ TreeFrame

TreeNext ==
    \/ TreeSeedFail
    \/ TreeSeedFound
    \/ TreeSampleRaise
    \/ TreeIterate
    \/ TreeReturnFail
    \/ TreeReturnPath

(***************************************************************************)
(* MPCController (controller/mpc_controller.py and control/mpc_basic.py).  *)
(* A state is (x, y, theta, v): x and y in 1/Scale units, theta in         *)
(* degrees, v in 1/Scale units per second.                                 *)
(***************************************************************************)
\* np.array([x, y, theta, v])
State(x, y, theta, v) == [x |-> x, y |-> y, theta |-> theta, v |-> v]

\* n / d, rounded to the nearest fixed-point value
DivRound(n, d) == Sign(n) * ((2 * Abs(n) + d) \div (2 * d))

\* self.dt, in 1/Scale seconds
dt == 100

\* np.linspace(-1, 1, 7), in 1/Scale units
Accelerations == <<-100, -67, -33, 0, 33, 67, 100>>

\* np.linspace(-np.pi/6, np.pi/6, 7), in degrees
SteeringAngles == <<-30, -20, -10, 0, 10, 20, 30>>

\* the 49 pairs "for a_ref ...: for delta_ref ...:", in loop order
ControlInputs ==
    [i \in 1..(Len(Accelerations) * Len(SteeringAngles)) |->
        [a |-> Accelerations[((i - 1) \div Len(SteeringAngles)) + 1],
         delta |-> SteeringAngles[((i - 1) % Len(SteeringAngles)) + 1]]]

\* tan(delta_ref) / wheelbase (wheelbase 2.5), in 1/100 degree of heading
\* per unit of distance: 4.04, 8.34 and 13.23 degrees
TurnRate(delta_ref) ==
    LET a == Abs(delta_ref)
    IN  Sign(delta_ref) * (IF a = 0 THEN 0
                           ELSE IF a = 10 THEN 404
                           ELSE IF a = 20 THEN 834
                           ELSE 1323)

\* predict: the kinematic bicycle model
predict(state, control_input) ==
    State(state.x + DivRound(state.v * Cos(state.theta) * dt, Scale * Scale),
          state.y + DivRound(state.v * Sin(state.theta) * dt, Scale * Scale),
          state.theta + DivRound(state.v * TurnRate(control_input.delta) * dt,
                                 Scale * Scale * Scale),
          state.v + DivRound(control_input.a * dt, Scale))

apply_control(current_state, control_input) ==
    predict(current_state, control_input)

\* an angle in degrees as 1/Scale radians
Radians(degrees) == DivRound(degrees * 1745, 1000)

\* np.sum((state - ref_state) ** 2)
SquaredError(state, ref_state) ==
    (state.x - ref_state.x) * (state.x - ref_state.x)
    + (state.y - ref_state.y) * (state.y - ref_state.y)
    + Radians(state.theta - ref_state.theta)
          * Radians(state.theta - ref_state.theta)
    + (state.v - ref_state.v) * (state.v - ref_state.v)

RECURSIVE CostFrom(_, _, _)
\* the loop of compute_cost from the i-th predicted state on
CostFrom(predicted_states, ref_trajectory, i) ==
    IF i > Len(predicted_states) \/ i > Len(ref_trajectory) THEN 0
    ELSE SquaredError(predicted_states[i], ref_trajectory[i])
         + CostFrom(predicted_states, ref_trajectory, i + 1)

compute_cost(predicted_states, ref_trajectory) ==
    CostFrom(predicted_states, ref_trajectory, 1)

\* (round(x), round(y))
Cell(state) == <<Round(state.x), Round(state.y)>>

\* mpc_basic.py, is_collision_free(state): the map's query on the cell of
\* the state
is_collision_free_basic(s) == is_not_crossed_obstacle(Cell(s), Cell(s))

\* BaseController.is_collision_free(current_state, s): the map's query
\* from the cell of current_state to the cell of s
is_collision_free_base(current_state, s) ==
    is_not_crossed_obstacle(Cell(current_state), Cell(s))

\* the collision test of optimize_control on the predicted state s:
\* "self.is_collision_free(s)" in mpc_basic.py,
\* "self.is_collision_free(state, s)" in mpc_controller.py
is_collision_free_state(controller, state, s) ==
    IF controller = "basic" THEN is_collision_free_basic(s)
    ELSE is_collision_free_base(state, s)

RECURSIVE Rollout(_, _, _)
\* "for _ in range(self.horizon): state = self.apply_control(state, ...)"
Rollout(state, control_input, steps) ==
    IF steps = 0 THEN <<>>
    ELSE LET next_state == apply_control(state, control_input)
         IN  <<next_state>> \o Rollout(next_state, control_input, steps - 1)

\* "if len(predicted_states) > len(ref_trajectory): predicted_states =
\* predicted_states[:len(ref_trajectory)]"
Truncated(predicted_states, ref_trajectory) ==
    IF Len(predicted_states) > Len(ref_trajectory)
    THEN SubSeq(predicted_states, 1, Len(ref_trajectory))
    ELSE predicted_states

\* the test mutated: every rollout is taken as collision-free
AllCollisionFreeUnchecked(controller, state, predicted_states) == TRUE

\* "all(self.is_collision_free(state, s) for s in predicted_states)", with
\* state the last state of the rollout
AllCollisionFree(controller, state, predicted_states) ==
    \A k \in 1..Len(predicted_states) :
        is_collision_free_state(controller, state, predicted_states[k])

\* one pass of the double loop of optimize_control, for the i-th control
\* pair and its rollout: predicted_states, whether they pass the collision
\* test (state being the last state of the rollout) and their cost
Candidate(controller, ref_trajectory, i, rollout) ==
    [index |-> i,
     accepted |-> AllCollisionFree(controller, rollout[Len(rollout)],
                                   Truncated(rollout, ref_trajectory)),
     min_cost |-> compute_cost(Truncated(rollout, ref_trajectory),
                               ref_trajectory),
     predicted_states |-> Truncated(rollout, ref_trajectory)]

\* the passes of the double loop that reach "if cost < min_cost"
Candidates(controller, current_state, ref_trajectory, horizon) ==
    {candidate \in
        {Candidate(controller, ref_trajectory, i,
                   Rollout(current_state, ControlInputs[i], horizon)) :
            i \in DOMAIN ControlInputs} :
        candidate.accepted}

\* what "if cost < min_cost" leaves in best_control (as an index, 0 for
\* None), min_cost and best_predicted_states: the first candidate of least
\* cost
FirstLeast(candidates) ==
    IF candidates = {}
    THEN [index |-> 0, accepted |-> FALSE, min_cost |-> Inf,
          predicted_states |-> <<>>]
    ELSE CHOOSE best \in candidates :
             \A other \in candidates :
                 \/ best.min_cost < other.min_cost
                 \/ /\ best.min_cost = other.min_cost
                    /\ best.index <= other.index

Best(controller, current_state, ref_trajectory, horizon) ==
    FirstLeast(Candidates(controller, current_state, ref_trajectory, horizon))

\* the default control: (0.5, 0.0) in mpc_controller.py, (0.1, 0.0) in
\* mpc_basic.py
default_control(controller) ==
    IF controller = "basic" THEN [a |-> 10, delta |-> 0]
    ELSE [a |-> 50, delta |-> 0]

\* the default's rollout mutated: cut to the reference segment's length
FallbackStatesTruncated(controller, current_state, ref_trajectory, horizon) ==
    IF controller = "basic" THEN <<>>
    ELSE Truncated(Rollout(current_state, default_control(controller), horizon),
                   ref_trajectory)

\* "if best_control is None": the states mpc_controller.py predicts with
\* the default control; mpc_basic.py returns the control alone
FallbackStates(controller, current_state, ref_trajectory, horizon) ==
    IF controller = "basic" THEN <<>>
    ELSE Rollout(current_state, default_control(controller), horizon)

\* the end of optimize_control: (best_control, best_predicted_states), and
\* whether best_control is the default
Returned(controller, current_state, ref_trajectory, horizon, best) ==
    IF best.index = 0
    THEN [control |-> default_control(controller),
          fallback |-> TRUE,
          predicted_states |-> FallbackStates(controller, current_state,
                                              ref_trajectory, horizon)]
    ELSE [control |-> ControlInputs[best.index],
          fallback |-> FALSE,
          predicted_states |-> IF controller = "basic" THEN <<>>
                               ELSE best.predicted_states]

optimize_control(controller, current_state, ref_trajectory, horizon) ==
    Returned(controller, current_state, ref_trajectory, horizon,
             Best(controller, current_state, ref_trajectory, horizon))

\* no call of optimize_control is made
OptIdle ==
    /\ oc_controller = "none"
    /\ oc_horizon = 0
    /\ oc_state = State(0, 0, 0, 0)
    /\ oc_ref = <<>>
    /\ oc_pc = "idle"
    /\ oc_result = [control |-> [a |-> 0, delta |-> 0], fallback |-> FALSE,
                    predicted_states |-> <<>>]

\* the lots a controller drives in: one without inner wall, one with a wall
\* across the middle
ControlWalls == { <<>>, << <<3, 2>>, <<3, 4>> >> }

\* the horizons a controller is constructed with
Horizons == {1, 2, 3}

\* the states optimize_control is called in: at rest and moving along x or y
CallStates ==
    {State(x, 300, theta, v) :
        x \in {100, 200}, theta \in {0, 90}, v \in {0, 100, 200}}

\* the reference segments optimize_control is called with
CallSegments ==
    { << State(300, 300, 0, 0) >>,
      << State(300, 300, 0, 100), State(400, 300, 0, 100) >>,
      << State(200, 400, 90, 0), State(200, 500, 90, 0),
         State(300, 500, 0, 0) >> }

OptInit ==
    /\ \E wall \in ControlWalls : ParkingLotInit(wall)
    /\ oc_controller \in {"controller", "basic"}
    /\ oc_horizon \in Horizons
    /\ oc_state \in CallStates
    /\ oc_ref \in CallSegments
    /\ oc_pc = "call"
    /\ oc_result = [control |-> [a |-> 0, delta |-> 0], fallback |-> FALSE,
                    predicted_states |-> <<>>]

OptFrame ==
    UNCHANGED <<mapVars, gridVars, queryVars, smoothVars, treeVars, followVars>>

\* a call of optimize_control(current_state, ref_trajectory)
OptimizeCall ==
    /\ oc_pc = "call"
    /\ oc_result' = optimize_control(oc_controller, oc_state, oc_ref,
                                     oc_horizon)
    /\ oc_pc' = "returned"
    /\ UNCHANGED <<oc_controller, oc_horizon, oc_state, oc_ref>>
    /\ OptFrame

OptNext == OptimizeCall

(***************************************************************************)
(* MPCController.follow_trajectory.                                        *)
(***************************************************************************)
\* the largest number of control steps of a run the model follows
MaxSteps == 6

\* window_size = 10
window_size == 10

\* the distance below which is_goal_reached holds, in 1/Scale units
goal_tolerance == 50

\* the distance below which mpc_basic.py stops: "< 2.0"
basic_tolerance == 200

\* the component of (dx, dy) across the direction of d degrees
Across(dx, dy, d) == dx * Sin(d) - dy * Cos(d)

RECURSIVE AngleIn(_, _, _, _)
\* the least d in lo..hi at which (dx, dy) is not to the right of the
\* direction d (binary search within a quadrant)
AngleIn(dx, dy, lo, hi) ==
    IF lo >= hi THEN lo
    ELSE LET mid == (lo + hi) \div 2
         IN  IF Across(dx, dy, mid) >= 0 THEN AngleIn(dx, dy, lo, mid)
             ELSE AngleIn(dx, dy, mid + 1, hi)

\* utils.calculate_angle: math.atan2(y2 - y1, x2 - x1), in degrees
calculate_angle(x1, y1, x2, y2) ==
    LET dx == x2 - x1
        dy == y2 - y1
        lo == IF dx > 0 /\ dy >= 0 THEN 0
              ELSE IF dx <= 0 /\ dy > 0 THEN 90
              ELSE IF dx < 0 /\ dy <= 0 THEN -180
              ELSE -90
        d == AngleIn(dx, dy, lo, lo + 90)
    IN  IF dx = 0 /\ dy = 0 THEN 0
        ELSE change_radians_range(
                 IF d > lo /\ Abs(Across(dx, dy, d - 1)) < Abs(Across(dx, dy, d))
                 THEN d - 1 ELSE d)

\* BaseController.is_goal_reached: the vehicle is within goal_tolerance of
\* goal_position
is_goal_reached(current_state, goal_position) ==
    (current_state.x - goal_position[1]) * (current_state.x - goal_position[1])
    + (current_state.y - goal_position[2]) * (current_state.y - goal_position[2])
        < goal_tolerance * goal_tolerance

\* the loop test mutated: the loop is left at once
LeavesLoopAtOnce(current_state, goal_position) == TRUE

\* "if self.is_goal_reached(current_state, goal_position): break"
LeavesLoop(current_state, goal_position) ==
    is_goal_reached(current_state, goal_position)

\* np.linalg.norm(ref_points - current_state[:2]) squared, for the row of
\* 0-based index k
Distance2(current_state, ref_trajectory, k) ==
    (ref_trajectory[k + 1].x - current_state.x)
        * (ref_trajectory[k + 1].x - current_state.x)
    + (ref_trajectory[k + 1].y - current_state.y)
        * (ref_trajectory[k + 1].y - current_state.y)

\* the new ref_index: np.argmin over the rows within window_size of
\* ref_index, the first row of least distance
closest_ref_index(current_state, ref_trajectory, ref_index) ==
    LET max_ref_index == Len(ref_trajectory) - 1
        search_start == IF ref_index - window_size > 0
                        THEN ref_index - window_size ELSE 0
        search_end == Min2(ref_index + window_size, max_ref_index)
        search_indices == search_start..search_end
        distances == [k \in search_indices |->
                         Distance2(current_state, ref_trajectory, k)]
    IN  CHOOSE k \in search_indices :
            \A j \in search_indices :
                \/ distances[k] < distances[j]
                \/ distances[k] = distances[j] /\ k <= j

\* the padding mutated: a short segment is handed on as it is
PaddedNot(ref_segment, horizon) == ref_segment

\* "if len(ref_segment) < self.horizon": np.vstack((ref_segment, padding))
Padded(ref_segment, horizon) ==
    ref_segment \o [k \in 1..(horizon - Len(ref_segment)) |->
                       ref_segment[Len(ref_segment)]]

\* ref_segment of mpc_controller.py: the rows cut from ref_trajectory,
\* padded, and the number of rows cut
RefSegment(ref_trajectory, ref_index, horizon) ==
    LET max_ref_index == Len(ref_trajectory) - 1
        ref_segment_end == Min2(ref_index + horizon, max_ref_index + 1)
        ref_segment == SubSeq(ref_trajectory, ref_index + 1, ref_segment_end)
    IN  [rows |-> Padded(ref_segment, horizon), cut |-> Len(ref_segment)]

\* the end of a pass of the body of "while True": what it leaves in
\* ref_index, ref_segment, control_input and next_state
Stepped(current_state, new_index, segment, optimized) ==
    [ref_index |-> new_index,
     segment |-> segment,
     control_input |-> optimized.control,
     fallback |-> optimized.fallback,
     next_state |-> apply_control(current_state, optimized.control)]

\* one pass of the body of "while True" past the goal test
LoopBody(current_state, ref_index) ==
    LET new_index == closest_ref_index(current_state, mp_ref, ref_index)
        segment == RefSegment(mp_ref, new_index, mp_horizon)
    IN  Stepped(current_state, new_index, segment,
                optimize_control("controller", current_state, segment.rows,
                                 mp_horizon))

NoSegment == [rows |-> <<>>, cut |-> 0]

\* no controller follows a trajectory
FollowIdle ==
    /\ mp_controller = "none"
    /\ mp_horizon = 0
    /\ mp_ref = <<>>
    /\ mp_goal = <<0, 0>>
    /\ mp_state = State(0, 0, 0, 0)
    /\ mp_trajectory = <<>>
    /\ mp_steering = <<>>
    /\ mp_accelations = <<>>
    /\ mp_ref_index = 0
    /\ mp_prev_index = 0
    /\ mp_segment = NoSegment
    /\ mp_fallback = FALSE
    /\ mp_pc = "idle"
    /\ mp_snapped = FALSE
    /\ mp_result = FALSE

\* the rows (x, y, theta, v) of a reference along the points path, all with
\* the heading theta and the speed v
Rows(path, theta, v) ==
    [k \in 1..Len(path) |-> State(path[k][1], path[k][2], theta, v)]

\* a reference of 12 rows: nine along y = 1 and three up x = 5
LongReference(v) ==
    [k \in 1..12 |->
        IF k <= 9 THEN State(100 + 50 * (k - 1), 100, 0, v)
        ELSE IF k = 10 THEN State(500, 150, 90, v)
        ELSE IF k = 11 THEN State(500, 200, 90, v)
        ELSE State(500, 300, 90, v)]

\* the speeds a reference row asks for
RefSpeeds == {0, 100}

\* what follow_trajectory is called with: (inner wall, start position,
\* ref_trajectory, goal_position)
FollowCases ==
    UNION {
      { << <<>>, <<100, 300>>,
           Rows(<< <<100, 300>>, <<200, 300>>, <<300, 300>> >>, 0, v),
           <<300, 300>> >>,
        << <<>>, <<100, 300>>,
           Rows(<< <<100, 300>>, <<200, 300>> >>, 0, v),
           <<200, 300>> >>,
        << <<>>, <<240, 300>>,
           Rows(<< <<100, 300>>, <<200, 300>>, <<300, 300>>, <<400, 300>>,
                   <<500, 300>> >>, 0, v),
           <<500, 300>> >>,
        << << <<3, 2>>, <<3, 4>> >>, <<300, 300>>,
           Rows(<< <<200, 300>>, <<400, 300>>, <<500, 300>> >>, 0, v),
           <<500, 300>> >>,
        << <<>>, <<450, 270>>, LongReference(v), <<500, 300>> >>,
        << <<>>, <<100, 100>>, LongReference(v), <<500, 300>> >> }
      : v \in RefSpeeds }

FollowInit ==
    /\ \E case \in FollowCases :
           /\ ParkingLotInit(case[1])
           /\ mp_ref = case[3]
           /\ mp_goal = case[4]
           /\ mp_state = State(case[2][1], case[2][2],
                               calculate_angle(case[2][1], case[2][2],
                                               case[3][2].x, case[3][2].y),
                               0)
    /\ mp_controller \in {"controller", "basic"}
    /\ mp_horizon \in Horizons
    /\ mp_trajectory = <<mp_state>>
    /\ mp_steering = <<>>
    /\ mp_accelations = <<>>
    /\ mp_ref_index = 0
    /\ mp_prev_index = 0
    /\ mp_segment = NoSegment
    /\ mp_fallback = FALSE
    /\ mp_pc = "loop"
    /\ mp_snapped = FALSE
    /\ mp_result = FALSE

FollowFrame ==
    UNCHANGED <<mapVars, gridVars, queryVars, smoothVars, treeVars, optVars,
                mp_controller, mp_horizon, mp_ref, mp_goal>>

\* mpc_controller.py, "while True": the goal test holds, break
FollowBreak ==
    /\ mp_controller = "controller"
    /\ mp_pc = "loop"
    /\ LeavesLoop(mp_state, mp_goal)
    /\ mp_pc' = "after"
    /\ UNCHANGED <<mp_state, mp_trajectory, mp_steering, mp_accelations,
                   mp_ref_index, mp_prev_index, mp_segment, mp_fallback,
                   mp_snapped, mp_result>>
    /\ FollowFrame

\* mpc_controller.py, "while True": one control step
FollowStep ==
    /\ mp_controller = "controller"
    /\ mp_pc = "loop"
    /\ ~LeavesLoop(mp_state, mp_goal)
    /\ Len(mp_steering) < MaxSteps
    /\ \E body \in {LoopBody(mp_state, mp_ref_index)} :
           /\ mp_prev_index' = mp_ref_index
           /\ mp_ref_index' = body.ref_index
           /\ mp_segment' = body.segment
           /\ mp_fallback' = body.fallback
           /\ mp_accelations' = Append(mp_accelations, body.control_input.a)
           /\ mp_steering' = Append(mp_steering, body.control_input.delta)
           /\ mp_state' = body.next_state
           /\ mp_trajectory' = Append(mp_trajectory, body.next_state)
    /\ UNCHANGED <<mp_pc, mp_snapped, mp_result>>
    /\ FollowFrame

\* mpc_controller.py after the loop: the final adjustment when the goal
\* test fails, which writes the goal into current_state, the array
\* appended last, and appends it again; return is_reached, ...
FollowReturn ==
    /\ mp_controller = "controller"
    /\ mp_pc = "after"
    /\ LET snapped == State(mp_goal[1], mp_goal[2],
                            calculate_angle(mp_goal[1], mp_goal[2],
                                            mp_goal[1], mp_goal[2]),
                            mp_state.v)
           aliased == IF mp_steering = <<>> THEN mp_trajectory
                      ELSE [mp_trajectory EXCEPT ![Len(mp_trajectory)] = snapped]
       IN  IF ~is_goal_reached(mp_state, mp_goal)
           THEN /\ mp_state' = snapped
                /\ mp_trajectory' = Append(aliased, snapped)
                /\ mp_snapped' = TRUE
           ELSE UNCHANGED <<mp_state, mp_trajectory, mp_snapped>>
    /\ mp_result' = TRUE
    /\ mp_pc' = "done"
    /\ UNCHANGED <<mp_steering, mp_accelations, mp_ref_index, mp_prev_index,
                   mp_segment, mp_fallback>>
    /\ FollowFrame

\* mpc_basic.py, "for i in range(len(ref_trajectory) - self.horizon)": one
\* control step, and the break when the vehicle is near the last row
BasicStep ==
    /\ mp_controller = "basic"
    /\ mp_pc = "loop"
    /\ mp_ref_index < Len(mp_ref) - mp_horizon
    /\ \E optimized \in
           {optimize_control("basic", mp_state,
                             SubSeq(mp_ref, mp_ref_index + 1,
                                    mp_ref_index + mp_horizon),
                             mp_horizon)} :
           LET next_state == apply_control(mp_state, optimized.control)
               last == mp_ref[Len(mp_ref)]
           IN  /\ mp_segment' = [rows |-> SubSeq(mp_ref, mp_ref_index + 1,
                                                 mp_ref_index + mp_horizon),
                                 cut |-> mp_horizon]
               /\ mp_fallback' = optimized.fallback
               /\ mp_state' = next_state
               /\ mp_trajectory' = Append(mp_trajectory, next_state)
               /\ mp_pc' = IF (next_state.x - last.x) * (next_state.x - last.x)
                              + (next_state.y - last.y)
                                    * (next_state.y - last.y)
                                  < basic_tolerance * basic_tolerance
                           THEN "after" ELSE "loop"
    /\ mp_prev_index' = mp_ref_index
    /\ mp_ref_index' = mp_ref_index + 1
    /\ UNCHANGED <<mp_steering, mp_accelations, mp_snapped, mp_result>>
    /\ FollowFrame

\* mpc_basic.py: the loop is over, return np.array(trajectory)
BasicReturn ==
    /\ mp_controller = "basic"
    /\ \/ mp_pc = "after"
       \/ mp_pc = "loop" /\ mp_ref_index >= Len(mp_ref) - mp_horizon
    /\ mp_pc' = "done"
    /\ UNCHANGED <<mp_state, mp_trajectory, mp_steering, mp_accelations,
                   mp_ref_index, mp_prev_index, mp_segment, mp_fallback,
                   mp_snapped, mp_result>>
    /\ FollowFrame

FollowNext ==
    \/ FollowBreak
    \/ FollowStep
    \/ FollowReturn
    \/ BasicStep
    \/ BasicReturn

vars == <<mapVars, gridVars, queryVars, smoothVars, treeVars, optVars,
          followVars>>

\* a lot nobody queries
MapIdle == obstacles = {} /\ obstacle_lines = {}

InitGrid ==
    GridInit /\ QueryIdle /\ SmoothIdle /\ TreeIdle /\ OptIdle /\ FollowIdle

SpecGrid == InitGrid /\ [][GridNext]_vars

InitMap ==
    MapInit /\ GridIdle /\ SmoothIdle /\ TreeIdle /\ OptIdle /\ FollowIdle

SpecMap == InitMap /\ [][MapNext]_vars

InitSmooth ==
    /\ SmoothInit /\ MapIdle /\ GridIdle /\ QueryIdle /\ TreeIdle
    /\ OptIdle /\ FollowIdle

SpecSmooth == InitSmooth /\ [][SmoothNext]_vars

InitTree ==
    TreeInit /\ GridIdle /\ QueryIdle /\ SmoothIdle /\ OptIdle /\ FollowIdle

SpecTree == InitTree /\ [][TreeNext]_vars

InitOptimize ==
    /\ OptInit /\ GridIdle /\ QueryIdle /\ SmoothIdle /\ TreeIdle
    /\ FollowIdle

SpecOptimize == InitOptimize /\ [][OptNext]_vars

InitFollow ==
    /\ FollowInit /\ GridIdle /\ QueryIdle /\ SmoothIdle /\ TreeIdle
    /\ OptIdle

SpecFollow == InitFollow /\ [][FollowNext]_vars

(***************************************************************************)
(* Claims about HybridAStarRoutePlanner.search_route.                      *)
(***************************************************************************)
\* the goal the planner was constructed with, as a node
GoalPoseNode == Node(goal_pose.x, goal_pose.y, goal_pose.theta, 0, 0, -1)

\* distance(node, goal_pose) <= 1.0, without the square root
WithinOneOfGoal(node) ==
    (node.x - goal_pose.x) * (node.x - goal_pose.x)
        + (node.y - goal_pose.y) * (node.y - goal_pose.y) <= Scale * Scale

\* C1: search_route has exactly two outcomes.  It returns success only
\* when the node popped from the open set, the one of least
\* cost + heuristic, lies within distance 1.0 of the goal; it returns
\* (False, 0, []) only when the open set is empty and no node within
\* distance 1.0 of the goal was popped; a failure carries no trajectory.
C1_TwoOutcomes ==
    hs_pc = "done" =>
        IF hs_result.found
        THEN /\ \E i \in 1..Len(open_set) :
                   /\ open_set[i].node = current_node
                   /\ \A j \in 1..Len(open_set) :
                          Priority(current_node, GoalPoseNode)
                              <= Priority(open_set[j].node, GoalPoseNode)
             /\ WithinOneOfGoal(current_node)
             /\ hs_result.route # <<>>
        ELSE /\ open_set = <<>>
             /\ hs_result = [found |-> FALSE, total_distance |-> 0,
                             route |-> <<>>]
             /\ \A k \in DOMAIN closed_set : ~WithinOneOfGoal(closed_set[k])

\* a search that failed after closing several cells
C1_Witness ==
    /\ hs_pc = "done"
    /\ ~hs_result.found
    /\ expansions >= 3

\* the cells is_not_crossed_obstacle can accept as a destination
AcceptedCells ==
    {c \in (1..(lot_width - 1)) \X (1..(lot_height - 1)) : c \notin obstacles}

StartKey == get_grid_index(start_node.discrete_x, start_node.discrete_y)

\* C2: the search terminates on a finite map.  Every iteration that does
\* not return closes one key that was not closed before, closed keys are
\* keys of accepted cells or the start key, and so the number of
\* expansions is at most the number of accepted cells plus one.
C2_BoundedExpansions ==
    /\ expansions = Cardinality(DOMAIN closed_set)
    /\ DOMAIN closed_set \subseteq
           {get_grid_index(c[1], c[2]) : c \in AcceptedCells} \cup {StartKey}
    /\ expansions <= Cardinality(AcceptedCells) + 1

\* a search that started on a cell the map does not accept, closed it and
\* went on to close accepted cells until the open set was empty
C2_Witness ==
    /\ hs_pc = "done"
    /\ ~hs_result.found
    /\ <<start_node.discrete_x, start_node.discrete_y>> \notin AcceptedCells
    /\ expansions >= 4

\* C3: a closed key is never re-opened.  The key sets of the open and the
\* closed set are disjoint in every state, and the node stored in the
\* closed set for a key is never replaced or removed.
C3_ClosedNeverReopened ==
    /\ [](OpenKeys(open_set) \cap DOMAIN closed_set = {})
    /\ [][\A k \in DOMAIN closed_set :
            k \in DOMAIN closed_set' /\ closed_set'[k] = closed_set[k]]_vars

\* a closed node has a successor that passes the obstacle check and lands
\* on a closed cell at a lower cost than the node stored for that cell.
\* (The cell was closed first: had the successor been offered while the
\* cell was open, the cell would have been closed at that cost or less.)
C3_Witness ==
    \E k1 \in DOMAIN closed_set, k2 \in DOMAIN closed_set,
       i \in 1..Len(Primitives) :
        LET next_node == calculate_next_node(closed_set[k1], k1,
                             Primitives[i].chord, Primitives[i].steering)
        IN  /\ get_grid_index(next_node.discrete_x, next_node.discrete_y) = k2
            /\ is_not_crossed_obstacle(
                   <<closed_set[k1].discrete_x, closed_set[k1].discrete_y>>,
                   <<next_node.discrete_x, next_node.discrete_y>>)
            /\ next_node.cost < closed_set[k2].cost

(***************************************************************************)
(* Claims about ParkingLot.is_not_crossed_obstacle.                        *)
(***************************************************************************)
\* the sign of the cross product (B - A) x (C - A)
Orientation(A, B, C) ==
    Sign((B[1] - A[1]) * (C[2] - A[2]) - (B[2] - A[2]) * (C[1] - A[1]))

\* P, known to lie on the line through A and B, lies between A and B
Between(A, B, P) ==
    /\ Min2(A[1], B[1]) <= P[1] /\ P[1] <= -Min2(-A[1], -B[1])
    /\ Min2(A[2], B[2]) <= P[2] /\ P[2] <= -Min2(-A[2], -B[2])

\* the closed segments AB and CD have a point in common: they cross
\* properly, or one touches the other at an endpoint, or they are
\* collinear and overlap
SegmentsMeet(A, B, C, D) ==
    LET o1 == Orientation(A, B, C)
        o2 == Orientation(A, B, D)
        o3 == Orientation(C, D, A)
        o4 == Orientation(C, D, B)
    IN  \/ (o1 * o2 < 0 /\ o3 * o4 < 0)
        \/ (o1 = 0 /\ Between(A, B, C))
        \/ (o2 = 0 /\ Between(A, B, D))
        \/ (o3 = 0 /\ Between(C, D, A))
        \/ (o4 = 0 /\ Between(C, D, B))

\* C4: is_not_crossed_obstacle(prev, next) is true if and only if the
\* segment prev-next crosses no obstacle line (touching a line at an
\* endpoint and collinear overlap count as crossing), next is not an
\* occupied cell, and next lies strictly inside the lot.
C4_NotCrossedIff ==
    query.calls > 0 =>
        (query.returned <=>
            /\ \A line \in obstacle_lines :
                   ~SegmentsMeet(line[1], line[2],
                                 query.previous_node, query.current_node)
            /\ query.current_node \notin obstacles
            /\ 0 < query.current_node[1] /\ query.current_node[1] < lot_width
            /\ 0 < query.current_node[2] /\ query.current_node[2] < lot_height)

(***************************************************************************)
(* Claims about InformedTRRTStar.smooth_path.                              *)
(***************************************************************************)
\* C9: smooth_path terminates for every path and collision predicate.
\* When no later index j has a collision-free segment from point i, the
\* smoother surfaces this (it leaves the loop) and does not scan again
\* with i unchanged.
C9_SmoothingSurfacesNoProgress ==
    sm_scans > 0 => sm_pc # "loop"

\* C10: smoothing is idempotent.  On a path on which smooth_path
\* terminates, smooth_path of its output returns that output: the second
\* call never fails to advance and ends with the same points in the same
\* order.
C10_SmoothIdempotent ==
    sm_pass = 2 =>
        /\ sm_scans = 0
        /\ sm_pc = "done" => sm_smooth = sm_first

\* the second call returned, on the output of a first call that cut a
\* point out of its input and kept a point between the two ends
C10_Witness ==
    /\ sm_pass = 2
    /\ sm_pc = "done"
    /\ Len(sm_first) >= 3
    /\ Len(sm_first) < Len(sm_input)

(***************************************************************************)
(* Claims about InformedTRRTStar.search_route.                             *)
(***************************************************************************)
\* C5: search_route returns four empty sequences whenever planning fails.
\* When the seed path is empty it returns them before any iteration, with
\* the node list, the goal and c_best as constructed; when the loop is
\* over and the goal has no parent it returns them; with max_iter = 0 the
\* result is empty whatever the start, the goal and the seed path.
C5_EmptyOnFailure ==
    tr_pc = "done" =>
        /\ tr_seed = <<>> =>
               /\ tr_result = << <<>>, <<>>, <<>>, <<>> >>
               /\ tr_iter = 0
               /\ Len(tr_nodes) = 1 /\ tr_nodes[1].parent = 0
               /\ tr_goal.parent = 0 /\ tr_goal.cost = 0
               /\ tr_c_best = Inf
        /\ tr_goal.parent = 0 => tr_result = << <<>>, <<>>, <<>>, <<>> >>
        /\ tr_max_iter = 0 => tr_result = << <<>>, <<>>, <<>>, <<>> >>

\* the iteration budget was used up on a seeded search that grew the tree
\* and never connected the goal
C5_Witness ==
    /\ tr_pc = "done"
    /\ tr_seed # <<>>
    /\ tr_max_iter >= 2 /\ tr_iter = tr_max_iter
    /\ Len(tr_nodes) >= 3
    /\ tr_goal.parent = 0
    /\ tr_result = << <<>>, <<>>, <<>>, <<>> >>

\* C6: the first collision-free goal connection ends the search.  c_best
\* changes only from +infinity, only in a step that appends the new node
\* and then the goal with the new node as its parent, and to the goal's
\* cost; once c_best is finite the tree, the goal and the iteration count
\* never change; no call of sample takes the informed branch.
C6_FirstConnectionEnds ==
    /\ [](~tr_informed)
    /\ [][tr_c_best' # tr_c_best =>
            /\ tr_c_best = Inf
            /\ Len(tr_nodes') = Len(tr_nodes) + 2
            /\ tr_nodes'[Len(tr_nodes')] = tr_goal'
            /\ tr_goal'.parent = Len(tr_nodes) + 1
            /\ tr_c_best' = tr_goal'.cost]_vars
    /\ [][tr_c_best # Inf =>
            UNCHANGED <<tr_nodes, tr_goal, tr_c_best, tr_iter>>]_vars

\* the search returned a path after connecting the goal with iterations
\* of its budget left
C6_Witness ==
    /\ tr_pc = "done"
    /\ tr_c_best # Inf
    /\ tr_goal.parent # 0
    /\ tr_iter >= 2 /\ tr_iter < tr_max_iter
    /\ tr_result[3] # <<>>

RECURSIVE ReachesStart(_, _, _)
\* following parent from the node of index i reaches the start node, of
\* index 1, in at most hops hops
ReachesStart(nodes, i, hops) ==
    IF i = 1 THEN TRUE
    ELSE IF i = 0 \/ hops = 0 THEN FALSE
         ELSE ReachesStart(nodes, nodes[i].parent, hops - 1)

RECURSIVE AncestorsOf(_, _, _)
\* the indices met when following parent from the node of index i
AncestorsOf(nodes, i, hops) ==
    IF nodes[i].parent = 0 \/ hops = 0 THEN {}
    ELSE {nodes[i].parent}
             \cup AncestorsOf(nodes, nodes[i].parent, hops - 1)

\* C7: the parent references form a tree rooted at the start node.  The
\* start node has no parent; from every node the start is reached in at
\* most len(nodes) hops; no node is its own parent or the parent of one
\* of its ancestors; a goal with a parent is the last node of the list.
C7_ParentsFormTree ==
    tr_nodes # <<>> =>
        /\ tr_nodes[1].parent = 0
        /\ \A i \in 1..Len(tr_nodes) :
               /\ tr_nodes[i].parent \in 0..Len(tr_nodes)
               /\ tr_nodes[i].parent # i
               /\ ReachesStart(tr_nodes, i, Len(tr_nodes))
               /\ \A a \in AncestorsOf(tr_nodes, i, Len(tr_nodes)) :
                      tr_nodes[a].parent # i
        /\ tr_goal.parent # 0 => tr_nodes[Len(tr_nodes)] = tr_goal

\* the goal was connected in a tree in which a rewire gave a node a
\* parent appended after it
C7_Witness ==
    /\ tr_pc = "done"
    /\ tr_goal.parent # 0
    /\ \E i \in 1..Len(tr_nodes) : tr_nodes[i].parent > i

\* C8: in the final tree every node with a parent, the connected goal
\* included, has cost = parent's cost + the distance to its parent, and
\* no step, a rewire in particular, increases the cost of a node.
C8_CostsFollowParents ==
    /\ [](tr_pc = "done" =>
            \A i \in 1..Len(tr_nodes) :
                tr_nodes[i].parent # 0 =>
                    tr_nodes[i].cost =
                        tr_nodes[tr_nodes[i].parent].cost
                        + hypot(tr_nodes[i].x - tr_nodes[tr_nodes[i].parent].x,
                                tr_nodes[i].y - tr_nodes[tr_nodes[i].parent].y))
    /\ [][\A i \in 1..Len(tr_nodes) :
            tr_nodes'[i].cost <= tr_nodes[i].cost]_vars

(***************************************************************************)
(* C16: the length of a returned trajectory.                               *)
(***************************************************************************)
\* C16: every non-empty route search_route returns on success has at
\* least two points, also when the start pose already lies within
\* distance 1.0 of the goal.  The search violates it: the start node is
\* then popped first, its parent_node_index is -1, and process_route
\* returns the single point of the start node.
C16_RouteHasTwoPoints ==
    (hs_pc = "done" /\ hs_result.route # <<>>) => Len(hs_result.route) >= 2

(***************************************************************************)
(* C17: the neighbour set of a growth iteration.                           *)
(***************************************************************************)
\* the indices of the nodes older than the new node whose Euclidean
\* distance to it is at most search_radius
WithinSearchRadius ==
    {i \in 1..(tr_new - 1) :
        hypot(tr_nodes[i].x - tr_nodes[tr_new].x,
              tr_nodes[i].y - tr_nodes[tr_new].y) <= search_radius * Scale}

\* C17: in every growth iteration that runs before a goal connection
\* (c_best still at its initial value) the neighbour set used for
\* best-parent selection and rewiring is exactly the set of tree nodes
\* within search_radius of the new node.  The planner violates it: c_best
\* starts at inf, the radius search_radius * (c_best / c_min) is inf and
\* the neighbour set is every node of the tree.
C17_NeighboursWithinSearchRadius ==
    tr_new # 0 => tr_near = WithinSearchRadius

(***************************************************************************)
(* C19: the corridor test on a zero-length segment.                        *)
(***************************************************************************)
\* C19: is_within_region is guarded against a path region with a
\* zero-length segment: for every candidate node it returns a boolean, and
\* no iteration of search_route ends in an exception raised by it.  The
\* planner violates it: line 63 divides by math.hypot(y2 - y1, x2 - x1),
\* which is 0 for two coinciding seed-path points.
C19_RegionTestGuarded ==
    /\ tr_pc # "raised"
    /\ tr_pc = "loop" =>
           \A p \in RandomPoints :
               is_within_region(p, narrow_sample(tr_seed)) \in {"True", "False"}

(***************************************************************************)
(* C18: parent links of the hybrid grid search.                            *)
(***************************************************************************)
\* the nodes stored in the open set or in the closed set
StoredNodes ==
    {open_set[i].node : i \in 1..Len(open_set)}
        \cup {closed_set[k] : k \in DOMAIN closed_set}

\* node was generated from the closed node of key node.parent_node_index by
\* one motion primitive that passed the obstacle check, and costs that
\* node's cost plus the primitive's chord length
GeneratedByParent(node) ==
    /\ node.parent_node_index \in DOMAIN closed_set
    /\ LET parent == closed_set[node.parent_node_index]
       IN  /\ parent.cost < node.cost
           /\ \E i \in DOMAIN Primitives :
                  /\ node = calculate_next_node(parent, node.parent_node_index,
                                                Primitives[i].chord,
                                                Primitives[i].steering)
                  /\ node.cost = parent.cost + Primitives[i].chord
                  /\ is_not_crossed_obstacle(
                         <<parent.discrete_x, parent.discrete_y>>,
                         <<node.discrete_x, node.discrete_y>>)

RECURSIVE HopsToStart(_, _)
\* the number of parent links from node to the start node, or -1 when a
\* link leaves the closed set or more than fuel links are followed
HopsToStart(node, fuel) ==
    IF node.parent_node_index = -1 THEN 0
    ELSE IF fuel = 0 \/ node.parent_node_index \notin DOMAIN closed_set THEN -1
    ELSE LET rest == HopsToStart(closed_set[node.parent_node_index], fuel - 1)
         IN  IF rest = -1 THEN -1 ELSE rest + 1

\* C18: every node in the open or closed set has parent_node_index -1 (only
\* the start node) or the key of a closed node that generated it by one
\* motion primitive that passed the obstacle check, with
\* node.cost = parent.cost + chord length > parent.cost.  So process_route
\* never looks up a missing key and terminates, and its route begins at the
\* start pose, ends at the terminal node and steps from a closed node's
\* pose to the pose of a node generated from it.
C18_ParentLinks ==
    /\ \A node \in StoredNodes :
           IF node.parent_node_index = -1 THEN node = start_node
           ELSE GeneratedByParent(node)
    /\ (hs_pc = "done" /\ hs_result.found) =>
           LET route == hs_result.route
               hops == HopsToStart(current_node, Cardinality(DOMAIN closed_set))
           IN  /\ hops >= 0
               /\ Len(route) = hops + 1
               /\ route[1] = <<start_node.x, start_node.y>>
               /\ route[Len(route)] = <<current_node.x, current_node.y>>
               /\ \A j \in 1..(Len(route) - 1) :
                      \E node \in StoredNodes :
                          /\ node.parent_node_index # -1
                          /\ GeneratedByParent(node)
                          /\ route[j + 1] = <<node.x, node.y>>
                          /\ route[j] =
                                 <<closed_set[node.parent_node_index].x,
                                   closed_set[node.parent_node_index].y>>

\* a search that succeeded with a route of several motion primitives
C18_Witness ==
    /\ hs_pc = "done"
    /\ hs_result.found
    /\ Len(hs_result.route) >= 4

(***************************************************************************)
(* Claims about MPCController.optimize_control.                            *)
(***************************************************************************)
\* the rollout of the control the call returned, cut to the segment
ReturnedRollout ==
    Truncated(Rollout(oc_state, oc_result.control, oc_horizon), oc_ref)

\* the state the collision test of the returned control was made from
ReturnedLast == Rollout(oc_state, oc_result.control, oc_horizon)[oc_horizon]

\* the cell of s is free and strictly inside the lot
OnFreeCell(s) ==
    /\ Cell(s) \notin obstacles
    /\ 0 < Cell(s)[1] /\ Cell(s)[1] < lot_width
    /\ 0 < Cell(s)[2] /\ Cell(s)[2] < lot_height

\* C11: whenever optimize_control returns a control of the 7x7 grid (not
\* the default), every state of that control's rollout, cut to the
\* reference segment's length, passed the map's collision query; so a
\* rollout with a colliding state is never the one selected, whatever its
\* cost.
C11_SelectedRolloutIsCollisionFree ==
    (oc_pc = "returned" /\ ~oc_result.fallback) =>
        /\ \E i \in DOMAIN ControlInputs : oc_result.control = ControlInputs[i]
        /\ \A k \in 1..Len(ReturnedRollout) :
               /\ is_collision_free_state(oc_controller, ReturnedLast,
                                          ReturnedRollout[k])
               /\ OnFreeCell(ReturnedRollout[k])
        /\ oc_controller = "controller" =>
               oc_result.predicted_states = ReturnedRollout

\* a grid control was returned although a control whose rollout, cut to a
\* segment shorter than the horizon, has a colliding state costs less
C11_Witness ==
    /\ oc_pc = "returned"
    /\ ~oc_result.fallback
    /\ Len(oc_ref) < oc_horizon
    /\ \E i \in DOMAIN ControlInputs :
           LET rollout == Truncated(Rollout(oc_state, ControlInputs[i],
                                            oc_horizon), oc_ref)
           IN  /\ \E k \in 1..Len(rollout) : ~OnFreeCell(rollout[k])
               /\ compute_cost(rollout, oc_ref)
                      < compute_cost(ReturnedRollout, oc_ref)

\* C12: for horizon >= 1 and a non-empty reference segment optimize_control
\* never returns a null control: it returns a control of the grid, or, when
\* all 49 control pairs have a rollout with a colliding state, the default
\* control ((0.5, 0.0) in mpc_controller.py, (0.1, 0.0) in mpc_basic.py), in
\* mpc_controller.py together with the rollout of exactly horizon states of
\* that default control, made without collision check.
C12_NeverNullControl ==
    oc_pc = "returned" =>
        /\ oc_result.fallback =
               (\A i \in DOMAIN ControlInputs :
                    \E k \in 1..Len(Truncated(Rollout(oc_state,
                                 ControlInputs[i], oc_horizon), oc_ref)) :
                        ~is_collision_free_state(oc_controller,
                             Rollout(oc_state, ControlInputs[i],
                                     oc_horizon)[oc_horizon],
                             Rollout(oc_state, ControlInputs[i],
                                     oc_horizon)[k]))
        /\ ~oc_result.fallback =>
               \E i \in DOMAIN ControlInputs :
                   oc_result.control = ControlInputs[i]
        /\ oc_result.fallback =>
               /\ oc_result.control =
                      IF oc_controller = "controller"
                      THEN [a |-> 50, delta |-> 0] ELSE [a |-> 10, delta |-> 0]
               /\ oc_controller = "controller" =>
                      /\ Len(oc_result.predicted_states) = oc_horizon
                      /\ oc_result.predicted_states =
                             Rollout(oc_state, oc_result.control, oc_horizon)

\* mpc_controller.py returned the default control for a segment shorter than
\* the horizon, with a rollout that has a state on an occupied cell
C12_Witness ==
    /\ oc_pc = "returned"
    /\ oc_result.fallback
    /\ oc_controller = "controller"
    /\ Len(oc_ref) < oc_horizon
    /\ \E k \in 1..Len(oc_result.predicted_states) :
           ~OnFreeCell(oc_result.predicted_states[k])

(***************************************************************************)
(* Claims about MPCController.follow_trajectory.                           *)
(***************************************************************************)
\* C13: in follow_trajectory of mpc_controller.py the tracked reference
\* index never regresses: the index chosen at a step is greater than or
\* equal to the index chosen at the previous step.
C13_RefIndexNeverRegresses ==
    mp_controller = "controller" => mp_ref_index >= mp_prev_index

\* C14: in every step of follow_trajectory of mpc_controller.py, for a
\* reference of at least two rows and a horizon of at least 1 (also one
\* longer than the reference), the reference index stays within
\* [0, len(ref_trajectory) - 1] and within window_size of the previous
\* index, the extracted segment is non-empty, and the segment handed to
\* optimize_control has exactly horizon rows, those past the end of the
\* reference being equal to the final reference point.
C14_SegmentWellFormed ==
    (mp_controller = "controller" /\ mp_steering # <<>>) =>
        /\ 0 <= mp_ref_index /\ mp_ref_index <= Len(mp_ref) - 1
        /\ mp_ref_index - mp_prev_index <= window_size
        /\ mp_prev_index - mp_ref_index <= window_size
        /\ mp_segment.cut >= 1
        /\ Len(mp_segment.rows) = mp_horizon
        /\ \A k \in 1..mp_horizon :
               mp_segment.rows[k] =
                   IF mp_ref_index + k <= Len(mp_ref)
                   THEN mp_ref[mp_ref_index + k]
                   ELSE mp_ref[Len(mp_ref)]

\* a step whose index moved by the whole window although a later row is
\* closer to the vehicle, and whose segment had to be padded
C14_Witness ==
    /\ mp_controller = "controller"
    /\ Len(mp_steering) = 1
    /\ mp_ref_index - mp_prev_index = window_size
    /\ \E k \in (mp_ref_index + 1)..(Len(mp_ref) - 1) :
           Distance2(mp_trajectory[1], mp_ref, k)
               < Distance2(mp_trajectory[1], mp_ref, mp_ref_index)
    /\ mp_segment.cut < mp_horizon

\* the vehicle is inside the loop of mpc_controller.py, away from the goal,
\* and a control step leaves current_state and ref_index as they are
Stalled ==
    /\ mp_controller = "controller"
    /\ mp_pc = "loop"
    /\ ~is_goal_reached(mp_state, mp_goal)
    /\ LoopBody(mp_state, mp_ref_index).next_state = mp_state
    /\ LoopBody(mp_state, mp_ref_index).ref_index = mp_ref_index

\* C15: follow_trajectory terminates for every map, start pose and
\* reference: its loop ends because the goal test succeeded or because a
\* hard cap on the number of control steps was reached.  mpc_controller.py
\* has no cap: a step that leaves current_state and ref_index unchanged
\* away from the goal is repeated forever.
C15_FollowTerminates == ~Stalled

\* C20: follow_trajectory of mpc_controller.py leaves its loop only in a
\* state where the goal test holds; so on every return the reached flag is
\* True, the final adjustment has not been made, and the trajectory has
\* exactly one more sample than the steering history and than the throttle
\* history, which have equal length.
C20_ReturnsOnlyAtGoal ==
    mp_controller = "controller" =>
        /\ mp_pc \in {"after", "done"} => is_goal_reached(mp_state, mp_goal)
        /\ mp_pc = "done" =>
               /\ mp_result = TRUE
               /\ ~mp_snapped
               /\ Len(mp_trajectory) = Len(mp_steering) + 1
               /\ Len(mp_trajectory) = Len(mp_accelations) + 1
               /\ Len(mp_steering) = Len(mp_accelations)

\* a call that returned after several control steps
C20_Witness ==
    /\ mp_controller = "controller"
    /\ mp_pc = "done"
    /\ Len(mp_steering) >= 2

=============================================================================
